---- MODULE Spec2Model ----
(***************************************************************************)
(* MAVBot: the socket-mode event router of cmd/start.go and its handlers.  *)
(*                                                                         *)
(* One consumer goroutine selects between ctx.Done() and the Events        *)
(* channel of the socket-mode client, switches on the event type, casts    *)
(* the payload, calls the handler and acknowledges the request.  Outbound  *)
(* calls (GetUserInfo, PostMessage) are modelled as a call step and a      *)
(* return step, the return being a nondeterministic success or error.      *)
(*                                                                         *)
(* Strings the code computes on (event text, user names, formatted reply   *)
(* text) are sequences of one-character strings; string constants the code *)
(* only copies (pretext, color, titles) are TLA+ strings.                  *)
(***************************************************************************)
EXTENDS Integers, Sequences, FiniteSets, TLC

\* Number of events the transport delivers in one run of the model.
MaxEvents == 2

----------------------------------------------------------------------------
(* strings *)

UpperCase ==
  <<"A","B","C","D","E","F","G","H","I","J","K","L","M",
    "N","O","P","Q","R","S","T","U","V","W","X","Y","Z">>

LowerCase ==
  <<"a","b","c","d","e","f","g","h","i","j","k","l","m",
    "n","o","p","q","r","s","t","u","v","w","x","y","z">>

LowerChar(c) ==
  IF \E i \in 1..Len(UpperCase) : UpperCase[i] = c
  THEN LowerCase[CHOOSE i \in 1..Len(UpperCase) : UpperCase[i] = c]
  ELSE c

\* the text used as it is, without lowering it
ToLowerLeftOut(s) == s

\* strings.ToLower
ToLower(s) == [i \in 1..Len(s) |-> LowerChar(s[i])]

\* strings.Contains
Contains(s, sub) ==
  \E k \in 0..(Len(s) - Len(sub)) :
    \A j \in 1..Len(sub) : s[k + j] = sub[j]

\* the keyword handleAppMentionEvent looks for
Keyword == <<"h","e","l","l","o">>

\* fmt.Sprintf("Hello %s", name)
SprintfHello(name) == <<"H","e","l","l","o"," ">> \o name

\* fmt.Sprintf("How can I help you %s", name)
SprintfHelp(name) ==
  <<"H","o","w"," ","c","a","n"," ","I"," ","h","e","l","p"," ","y","o","u"," ">>
    \o name

\* the two arguments of the format in the wrong order
SprintfYouSaidSwapped(userName, text) ==
  <<"H","e","l","l","o"," ">> \o text
    \o <<"!"," ","Y","o","u"," ","s","a","i","d",":"," ">> \o userName

\* fmt.Sprintf("Hello %s! You said: %s", userName, text)
SprintfYouSaid(userName, text) ==
  <<"H","e","l","l","o"," ">> \o userName
    \o <<"!"," ","Y","o","u"," ","s","a","i","d",":"," ">> \o text

----------------------------------------------------------------------------
(* inputs *)

Channels == {"C1", "C2"}

UserIds == { <<"U","1">>, <<"U","2">> }

\* user.Name as Slack's users.info returns it for a user id
UserNameOf(id) ==
  IF id = <<"U","1">> THEN <<"a","n","n">> ELSE <<"B","o","b">>

UserNames == {UserNameOf(id) : id \in UserIds}

MentionTexts ==
  { <<"h","e","l","l","o">>,
    <<"O","h"," ","H","E","L","l","o","!">>,
    <<"h","e","l","p"," ","l","o">>,
    << >> }

CommandTexts ==
  { << >>,
    <<"H","i">>,
    <<"a"," ","b">> }

NoText == << >>

\* A socketmode.Event as the consumer sees it: Type, whether Data casts to
\* the type the arm expects, and the fields of Data the handlers read.
\*   kind:  EventsAPIEvent.Type | SlashCommand.Command | InteractionCallback.Type
\*   inner: the dynamic type of EventsAPIEvent.InnerEvent.Data
\*   who:   AppMentionEvent.User (an id) | SlashCommand.UserName (a name)
Event(type, castOk, kind, inner, who, text, channel) ==
  [type |-> type, castOk |-> castOk, kind |-> kind, inner |-> inner,
   who |-> who, text |-> text, channel |-> channel]

EventsAPIEvents ==
  { Event("events_api", FALSE, "", "", NoText, NoText, "C1"),
    Event("events_api", TRUE, "url_verification", "", NoText, NoText, "C1"),
    Event("events_api", TRUE, "event_callback", "MessageEvent", NoText, NoText, "C1") }
  \cup
  { Event("events_api", TRUE, "event_callback", "AppMentionEvent",
          u, t, c) : u \in UserIds, t \in MentionTexts, c \in Channels }

SlashCommandEvents ==
  { Event("slash_commands", FALSE, "", "", NoText, NoText, "C1"),
    Event("slash_commands", TRUE, "/was-this-article-useful", "", NoText, NoText, "C1"),
    Event("slash_commands", TRUE, "/bye", "", NoText, NoText, "C1") }
  \cup
  { Event("slash_commands", TRUE, "/hello", "", n, t, c) :
      n \in UserNames, t \in CommandTexts, c \in Channels }

InteractiveEvents ==
  { Event("interactive", FALSE, "", "", NoText, NoText, "C1"),
    Event("interactive", TRUE, "block_actions", "", NoText, NoText, "C1"),
    Event("interactive", TRUE, "view_submission", "", NoText, NoText, "C1") }

\* event types the switch has no arm for
OtherEvents ==
  { Event("hello", TRUE, "", "", NoText, NoText, "C1") }

Events == EventsAPIEvents \cup SlashCommandEvents \cup InteractiveEvents \cup OtherEvents

NoEvent == [id |-> 0, ev |-> Event("", FALSE, "", "", NoText, NoText, "")]

----------------------------------------------------------------------------
(* replies *)

Fields(name) ==
  << [Title |-> "Date", Value |-> "now"],
     [Title |-> "Initializer", Value |-> name] >>

\* the attachment handleAppMentionEvent builds
MentionAttachment(text, name) ==
  IF Contains(ToLower(text), Keyword)
  THEN [Pretext |-> "Greetings", Text |-> SprintfHello(name),
        Color |-> "#4af030", Fields |-> Fields(name), Blocks |-> << >>]
  ELSE [Pretext |-> "How can I be of service?", Text |-> SprintfHelp(name),
        Color |-> "#3d3d3d", Fields |-> Fields(name), Blocks |-> << >>]

\* the attachment handleHelloCommand builds
HelloAttachment(userName, text) ==
  [Pretext |-> "", Text |-> SprintfYouSaid(userName, text),
   Color |-> "#4af030", Fields |-> Fields(userName), Blocks |-> << >>]

\* slack.NewOptionBlockObject(value, text, description)
OptionBlockObject(value, text, description) ==
  [Value |-> value,
   Text |-> [Type |-> "mrkdwn", Text |-> text],
   Description |-> [Type |-> "mrkdwn", Text |-> description]]

\* the attachment handleIsArticleGood returns
ArticleAttachment ==
  [Pretext |-> "", Color |-> "#4af030",
   Text |-> <<"R","a","t","e"," ","t","h","e"," ","t","u","t","o","r","i","a","l">>,
   Fields |-> << >>,
   Blocks |-> << [Type |-> "section",
                  Text |-> [Type |-> "mrkdwn",
                            Text |-> "Did you think this article was helpful?"],
                  Accessory |->
                    [Type |-> "checkboxes", ActionID |-> "answer",
                     Options |->
                       << OptionBlockObject("yes", "Yes", "Did you Enjoy it?"),
                          OptionBlockObject("no", "No", "Did you Dislike it?") >>]] >>]

\* payloads are interface{} values: nil, or the attachment
NilPayload == << >>

\* handleSlashCommand with /hello as the default case
SlashRouteDefaultHello(command) ==
  CASE command = "/was-this-article-useful" -> "article"
    [] OTHER -> "hello"

\* handleSlashCommand without the case for /was-this-article-useful
SlashRouteNoArticle(command) ==
  CASE command = "/hello" -> "hello"
    [] OTHER -> "none"

\* what handleSlashCommand does for a command name
SlashRoute(command) ==
  CASE command = "/hello" -> "hello"
    [] command = "/was-this-article-useful" -> "article"
    [] OTHER -> "none"

----------------------------------------------------------------------------
(* state *)

VARIABLES
  events,     \* socketClient.Events: the events delivered and not yet received
  delivered,  \* number of events the transport has delivered
  received,   \* the events the consumer took from the channel, in order
  lookups,    \* GetUserInfo calls that returned, with their outcome
  cancelled,  \* ctx.Done() is closed
  running,    \* the process has not called log.Fatal
  pc,         \* position of the consumer goroutine
  cur,        \* the event the consumer is processing
  payload,    \* the payload handleSlashCommand returned
  inflight,   \* outbound Web API calls that have not returned
  calls,      \* handler invocations, in the order they started
  posts,      \* PostMessage calls issued
  acks,       \* socketClient.Ack calls issued
  logs        \* lines the router wrote with log.Printf / Println / Fatal

vars ==
  <<events, delivered, received, lookups, cancelled, running, pc, cur,
    payload, inflight, calls, posts, acks, logs>>

Init ==
  /\ events = << >>
  /\ delivered = 0
  /\ received = << >>
  /\ lookups = << >>
  /\ cancelled = FALSE
  /\ running = TRUE
  /\ pc = "select"
  /\ cur = NoEvent
  /\ payload = NilPayload
  /\ inflight = {}
  /\ calls = << >>
  /\ posts = << >>
  /\ acks = << >>
  /\ logs = << >>

----------------------------------------------------------------------------
(* the transport and the main goroutine *)

\* The socket-mode client delivers an event on its Events channel.  It does so
\* only while socketClient.Run() has not returned, that is before cancel().
Deliver ==
  /\ running
  /\ ~cancelled
  /\ delivered < MaxEvents
  /\ \E e \in Events :
       events' = Append(events, [id |-> delivered + 1, ev |-> e])
  /\ delivered' = delivered + 1
  /\ UNCHANGED <<received, lookups, cancelled, running, pc, cur, payload,
                 inflight, calls, posts, acks, logs>>

\* socketClient.Run() returns and the deferred cancel() closes ctx.Done().
Cancel ==
  /\ running
  /\ ~cancelled
  /\ cancelled' = TRUE
  /\ UNCHANGED <<events, delivered, received, lookups, running, pc, cur,
                 payload, inflight, calls, posts, acks, logs>>

----------------------------------------------------------------------------
(* the consumer goroutine *)

Log(msg) == Append(logs, [id |-> cur.id, msg |-> msg])

\* a receive that takes the newest event instead of the oldest
ChanRecvNewest(q) == [val |-> q[Len(q)], rest |-> SubSeq(q, 1, Len(q) - 1)]

\* a receive from the Events channel: the value received and what stays queued
ChanRecv(q) == [val |-> Head(q), rest |-> Tail(q)]

\* a handler is called for the current event; result is "running" while it
\* has not returned, then "nil" or "err"
Called(handler, result) ==
  Append(calls, [id |-> cur.id, handler |-> handler, result |-> result])

\* the handler in progress returns
Returned(result) ==
  [calls EXCEPT ![Len(calls)] = [@ EXCEPT !.result = result]]

\* the error is logged with log.Println and the loop goes on
FatalPrintln(cs) ==
  /\ calls' = cs
  /\ logs' = Log("fatal")
  /\ running' = running
  /\ pc' = "select"
  /\ inflight' = {}

\* log.Fatal(err): the line is logged and the process exits
Fatal(cs) ==
  /\ calls' = cs
  /\ logs' = Log("fatal")
  /\ running' = FALSE
  /\ pc' = "exited"
  /\ inflight' = {}

\* the ctx.Done() branch with a break in place of the return: the loop goes on
SelectDoneBreak ==
  /\ running
  /\ pc = "select"
  /\ cancelled
  /\ logs' = Append(logs, [id |-> 0, msg |-> "shutdown"])
  /\ pc' = "select"
  /\ UNCHANGED <<events, delivered, received, lookups, cancelled, running,
                 cur, payload, inflight, calls, posts, acks>>

\* case <-ctx.Done(): log and return
SelectDone ==
  /\ running
  /\ pc = "select"
  /\ cancelled
  /\ logs' = Append(logs, [id |-> 0, msg |-> "shutdown"])
  /\ pc' = "stopped"
  /\ UNCHANGED <<events, delivered, received, lookups, cancelled, running, cur, payload,
                 inflight, calls, posts, acks>>

\* the switch with the continue after a failed cast left out
ArmNoContinue(e) ==
  CASE e.type = "events_api" -> "ack_events_api"
    [] e.type = "slash_commands" -> "handleSlashCommand"
    [] e.type = "interactive" -> "handleInteractiveEvent"
    [] OTHER -> "select"

\* where the switch on event.Type goes for a received event
Arm(e) ==
  CASE e.type = "events_api" -> IF e.castOk THEN "ack_events_api" ELSE "select"
    [] e.type = "slash_commands" -> IF e.castOk THEN "handleSlashCommand" ELSE "select"
    [] e.type = "interactive" -> IF e.castOk THEN "handleInteractiveEvent" ELSE "select"
    [] OTHER -> "select"

\* whether the arm logs the event it could not cast
CastLogged(e) ==
  e.type \in {"events_api", "slash_commands", "interactive"} /\ ~e.castOk

\* case event := <-socketClient.Events, the switch and the type cast
Receive ==
  /\ running
  /\ pc = "select"
  /\ events # << >>
  /\ LET r == ChanRecv(events) IN
       /\ events' = r.rest
       /\ cur' = r.val
       /\ received' = Append(received, r.val)
       /\ pc' = Arm(r.val.ev)
       /\ logs' = IF CastLogged(r.val.ev)
                  THEN Append(logs, [id |-> r.val.id, msg |-> "cast"])
                  ELSE logs
  /\ UNCHANGED <<delivered, lookups, cancelled, running, payload, inflight,
                 calls, posts, acks>>

\* the Events API arm without its Ack
AckEventsAPILeftOut ==
  /\ running
  /\ pc = "ack_events_api"
  /\ pc' = "handleEventMessage"
  /\ UNCHANGED <<events, delivered, received, lookups, cancelled, running,
                 cur, payload, inflight, calls, posts, acks, logs>>

\* socketClient.Ack(*event.Request) of the Events API arm
AckEventsAPI ==
  /\ running
  /\ pc = "ack_events_api"
  /\ acks' = Append(acks, [id |-> cur.id, payload |-> NilPayload])
  /\ pc' = "handleEventMessage"
  /\ UNCHANGED <<events, delivered, received, lookups, cancelled, running, cur, payload,
                 inflight, calls, posts, logs>>

\* handleEventMessage, up to the GetUserInfo call of handleAppMentionEvent
HandleEventMessage ==
  /\ running
  /\ pc = "handleEventMessage"
  /\ CASE cur.ev.kind # "event_callback" ->
            \* default: return errors.New("unsupported event type")
            Fatal(Called("handleEventMessage", "err"))
       [] cur.ev.kind = "event_callback" /\ cur.ev.inner # "AppMentionEvent" ->
            /\ calls' = Called("handleEventMessage", "nil")
            /\ pc' = "select"
            /\ UNCHANGED <<running, inflight, logs>>
       [] OTHER ->
            /\ calls' = Called("handleEventMessage", "running")
            /\ inflight' = inflight \cup {"GetUserInfo"}
            /\ pc' = "GetUserInfo"
            /\ UNCHANGED <<running, logs>>
  /\ UNCHANGED <<events, delivered, received, lookups, cancelled, cur, payload, posts, acks>>

\* a PostMessage call: the channel and the attachment
Post(channel, attachment) ==
  Append(posts, [id |-> cur.id, channel |-> channel, attachment |-> attachment])

\* client.GetUserInfo returns; on success handleAppMentionEvent builds the
\* attachment and calls client.PostMessage
GetUserInfoReturn ==
  /\ running
  /\ pc = "GetUserInfo"
  /\ \E ok \in BOOLEAN :
       /\ lookups' = Append(lookups, [id |-> cur.id, ok |-> ok])
       /\ IF ok
          THEN /\ posts' = Post(cur.ev.channel,
                                MentionAttachment(cur.ev.text, UserNameOf(cur.ev.who)))
               /\ inflight' = (inflight \ {"GetUserInfo"}) \cup {"PostMessage"}
               /\ pc' = "PostMessage"
               /\ UNCHANGED <<running, calls, logs>>
          ELSE /\ Fatal(Returned("err"))
               /\ UNCHANGED posts
  /\ UNCHANGED <<events, delivered, received, cancelled, cur, payload, acks>>

\* client.PostMessage of handleAppMentionEvent returns
PostMessageReturn ==
  /\ running
  /\ pc = "PostMessage"
  /\ \E ok \in BOOLEAN :
       IF ok
       THEN /\ calls' = Returned("nil")
            /\ inflight' = inflight \ {"PostMessage"}
            /\ pc' = "select"
            /\ UNCHANGED <<running, logs>>
       ELSE Fatal(Returned("err"))
  /\ UNCHANGED <<events, delivered, received, lookups, cancelled, cur, payload, posts, acks>>

\* handleSlashCommand, up to the PostMessage call of handleHelloCommand
HandleSlashCommand ==
  /\ running
  /\ pc = "handleSlashCommand"
  /\ LET route == SlashRoute(cur.ev.kind) IN
       CASE route = "hello" ->
              /\ calls' = Called("handleSlashCommand", "running")
              /\ posts' = Post(cur.ev.channel,
                               HelloAttachment(cur.ev.who, cur.ev.text))
              /\ inflight' = inflight \cup {"PostMessage"}
              /\ pc' = "PostMessageHello"
              /\ UNCHANGED payload
         [] route = "article" ->
              /\ calls' = Called("handleSlashCommand", "nil")
              /\ payload' = <<ArticleAttachment>>
              /\ pc' = "ack_slash_command"
              /\ UNCHANGED <<posts, inflight>>
         [] OTHER ->
              /\ calls' = Called("handleSlashCommand", "nil")
              /\ payload' = NilPayload
              /\ pc' = "ack_slash_command"
              /\ UNCHANGED <<posts, inflight>>
  /\ UNCHANGED <<events, delivered, received, lookups, cancelled, running, cur, acks, logs>>

\* client.PostMessage of handleHelloCommand returns
PostMessageHelloReturn ==
  /\ running
  /\ pc = "PostMessageHello"
  /\ \E ok \in BOOLEAN :
       IF ok
       THEN /\ calls' = Returned("nil")
            /\ inflight' = inflight \ {"PostMessage"}
            /\ payload' = NilPayload
            /\ pc' = "ack_slash_command"
            /\ UNCHANGED <<running, logs>>
       ELSE /\ Fatal(Returned("err"))
            /\ UNCHANGED payload
  /\ UNCHANGED <<events, delivered, received, lookups, cancelled, cur, posts, acks>>

\* the slash-command arm acknowledging without the payload
AckSlashCommandNoPayload ==
  /\ running
  /\ pc = "ack_slash_command"
  /\ acks' = Append(acks, [id |-> cur.id, payload |-> NilPayload])
  /\ pc' = "select"
  /\ UNCHANGED <<events, delivered, received, lookups, cancelled, running,
                 cur, payload, inflight, calls, posts, logs>>

\* socketClient.Ack(*event.Request, payload) of the slash-command arm
AckSlashCommand ==
  /\ running
  /\ pc = "ack_slash_command"
  /\ acks' = Append(acks, [id |-> cur.id, payload |-> payload])
  /\ pc' = "select"
  /\ UNCHANGED <<events, delivered, received, lookups, cancelled, running, cur, payload,
                 inflight, calls, posts, logs>>

\* handleInteractiveEvent: logs the action and returns nil
HandleInteractiveEvent ==
  /\ running
  /\ pc = "handleInteractiveEvent"
  /\ calls' = Called("handleInteractiveEvent", "nil")
  /\ logs' = Log("interaction")
  /\ pc' = "ack_interactive"
  /\ UNCHANGED <<events, delivered, received, lookups, cancelled, running, cur, payload,
                 inflight, posts, acks>>

\* socketClient.Ack(*event.Request) of the interactive arm
AckInteractive ==
  /\ running
  /\ pc = "ack_interactive"
  /\ acks' = Append(acks, [id |-> cur.id, payload |-> NilPayload])
  /\ pc' = "select"
  /\ UNCHANGED <<events, delivered, received, lookups, cancelled, running, cur, payload,
                 inflight, calls, posts, logs>>

Next ==
  \/ Deliver
  \/ Cancel
  \/ SelectDone
  \/ Receive
  \/ AckEventsAPI
  \/ HandleEventMessage
  \/ GetUserInfoReturn
  \/ PostMessageReturn
  \/ HandleSlashCommand
  \/ PostMessageHelloReturn
  \/ AckSlashCommand
  \/ HandleInteractiveEvent
  \/ AckInteractive

Spec == Init /\ [][Next]_vars

----------------------------------------------------------------------------
(* vocabulary of the properties *)

\* entries of a history (calls, posts, acks, logs, lookups) about event id
About(hist, id) == {i \in DOMAIN hist : hist[i].id = id}

\* a reply to event id: a message posted for it or a payload in its acknowledgment
Replies(id) ==
  Cardinality(About(posts, id))
    + Cardinality({i \in About(acks, id) : acks[i].payload # NilPayload})

\* the handler for event id has returned without error
HandledOk(id) == \E i \in About(calls, id) : calls[i].result = "nil"

\* the handler for event id has returned an error
HandlerFailed(id) == \E i \in About(calls, id) : calls[i].result = "err"

\* the router is through with event id: its handler returned without error
\* and the loop is back at the select (or has left it on cancellation)
Completed(id) ==
  /\ HandledOk(id)
  /\ cur.id = id => pc \in {"select", "stopped"}

IsMention(e) ==
  /\ e.type = "events_api" /\ e.castOk
  /\ e.kind = "event_callback" /\ e.inner = "AppMentionEvent"

IsSlash(e) == e.type = "slash_commands" /\ e.castOk

IsInteractive(e) == e.type = "interactive" /\ e.castOk

KnownCommands == {"/hello", "/was-this-article-useful"}

\* the switch has an arm for the event's type
HasArm(e) == e.type \in {"events_api", "slash_commands", "interactive"}

\* the loop has taken the ctx.Done() branch
ShutDown == \E i \in DOMAIN logs : logs[i].msg = "shutdown"

----------------------------------------------------------------------------
(* C1 *)

\* C1 as stated: every app mention, slash command and interactive callback
\* the router has handled to completion has exactly one reply (a posted
\* message or an acknowledgment payload).
C1_ExactlyOneReply ==
  \A r \in DOMAIN received :
    LET id == received[r].id
        e == received[r].ev
    IN (Completed(id) /\ (IsMention(e) \/ IsSlash(e) \/ IsInteractive(e)))
         => Replies(id) = 1

\* C1 amended: no event ever has more than one reply; an event the router has
\* handled to completion has exactly one reply when it is an app mention, a
\* /hello command or a /was-this-article-useful command, and none when it is
\* an interactive callback, another slash command or another Events API
\* callback.
C1_AtMostOneReply ==
  \A r \in DOMAIN received :
    LET id == received[r].id
        e == received[r].ev
    IN /\ Replies(id) <= 1
       /\ Completed(id) =>
            IF IsMention(e) \/ (IsSlash(e) /\ e.kind \in KnownCommands)
            THEN Replies(id) = 1
            ELSE Replies(id) = 0

C1_Witness ==
  \E r, q \in DOMAIN received :
    /\ Completed(received[r].id) /\ Replies(received[r].id) = 1
    /\ Completed(received[q].id) /\ Replies(received[q].id) = 0
    /\ IsInteractive(received[q].ev)

----------------------------------------------------------------------------
(* C2 *)

\* C2 as stated: once ctx.Done() is closed no handler is started, no message
\* is posted and no acknowledgment is sent.
C2_NoSendAfterCancel ==
  [][cancelled =>
       /\ Len(calls') = Len(calls)
       /\ posts' = posts
       /\ acks' = acks]_vars

\* C2 amended: the loop takes the ctx.Done() branch only after cancellation,
\* and from the moment it has taken it no event is received, no handler is
\* started, no message is posted and no acknowledgment is sent; the events
\* still on the channel stay there.
C2_NoSendAfterShutDown ==
  [][/\ ShutDown' => cancelled'
     /\ ShutDown =>
          /\ events' = events
          /\ received' = received
          /\ Len(calls') = Len(calls)
          /\ posts' = posts
          /\ acks' = acks]_vars

C2_Witness ==
  /\ ShutDown
  /\ pc = "stopped"
  /\ events # << >>
  /\ posts # << >>

----------------------------------------------------------------------------
(* C3 *)

\* C3: a handler error ends the process in the same step (log.Fatal), and
\* once the process has ended no event is received, no handler is started or
\* returns, no message is posted and no acknowledgment is sent.
C3_HandlerErrorIsFatal ==
  [][/\ (\E i \in DOMAIN calls' : calls'[i].result = "err") => ~running'
     /\ ~running =>
          /\ ~running'
          /\ events' = events
          /\ received' = received
          /\ calls' = calls
          /\ posts' = posts
          /\ acks' = acks]_vars

C3_Witness ==
  /\ ~running
  /\ events # << >>
  /\ \E i \in DOMAIN calls : calls[i].result = "err"
  /\ \E i \in DOMAIN lookups : ~lookups[i].ok

----------------------------------------------------------------------------
(* C4 *)

\* the switch skips the event: no arm for its type, or the cast fails
Skipped(e) == ~HasArm(e) \/ ~e.castOk

\* lines the router logged about event id
Logged(id) == Cardinality(About(logs, id))

\* C4 as stated: every skipped event (unknown kind or failed cast) is logged.
C4_SkippedIsLogged ==
  \A r \in DOMAIN received :
    Skipped(received[r].ev) => Logged(received[r].id) >= 1

\* C4 amended: an event whose cast fails is logged once, an event of a kind
\* the switch has no arm for is not logged; in both cases no handler runs, no
\* reply and no acknowledgment is sent for it, the process goes on, and the
\* receiving step leaves the loop at the select, ready for the next event.
C4_SkippedIsHarmless ==
  /\ [](\A r \in DOMAIN received :
          LET id == received[r].id
              e == received[r].ev
          IN Skipped(e) =>
               /\ Logged(id) = (IF HasArm(e) THEN 1 ELSE 0)
               /\ About(calls, id) = {}
               /\ About(posts, id) = {}
               /\ About(acks, id) = {}
               /\ cur.id = id => (running /\ pc \in {"select", "stopped"}))
  /\ [][(Len(received') = Len(received) + 1
           /\ Skipped(received'[Len(received')].ev))
          => (pc' = "select" /\ running')]_vars

C4_Witness ==
  \E r, q \in DOMAIN received :
    /\ r < q
    /\ ~received[r].ev.castOk /\ HasArm(received[r].ev)
    /\ Logged(received[r].id) = 1
    /\ ~HasArm(received[q].ev)
    /\ Logged(received[q].id) = 0
    /\ pc = "select"

----------------------------------------------------------------------------
(* C5 *)

\* C5: events are received in arrival order; handlers start in that order and
\* only the latest can be in progress; at most one outbound call is in
\* flight; while one is, no event is received and no handler starts.
C5_OneAtATime ==
  /\ [](/\ \A r \in DOMAIN received : received[r].id = r
        /\ \A i, j \in DOMAIN calls : i < j =>
              /\ calls[i].id < calls[j].id
              /\ calls[i].result # "running"
        /\ Cardinality(inflight) <= 1
        /\ inflight # {} =>
              (calls # << >> /\ calls[Len(calls)].result = "running"))
  /\ [][inflight # {} =>
          /\ received' = received
          /\ Len(events') >= Len(events)
          /\ SubSeq(events', 1, Len(events)) = events
          /\ Len(calls') = Len(calls)]_vars

C5_Witness ==
  /\ Len(calls) >= 2
  /\ calls[1].id < calls[2].id
  /\ calls[Len(calls)].result = "running"
  /\ inflight # {}

----------------------------------------------------------------------------
(* C6 *)

UnknownCommand(e) == IsSlash(e) /\ e.kind \notin KnownCommands

\* C6: for a slash command other than /hello and /was-this-article-useful the
\* handler posts nothing and returns a nil payload and no error; the router
\* acknowledges with that nil payload and goes on.
C6_UnknownCommandIgnored ==
  \A r \in DOMAIN received :
    LET id == received[r].id
        e == received[r].ev
    IN UnknownCommand(e) =>
         /\ About(posts, id) = {}
         /\ \A i \in About(calls, id) : calls[i].result = "nil"
         /\ \A i \in About(acks, id) : acks[i].payload = NilPayload
         /\ (cur.id = id /\ pc = "ack_slash_command") => payload = NilPayload
         /\ cur.id = id =>
              (running /\ pc \in {"handleSlashCommand", "ack_slash_command",
                                   "select", "stopped"})

C6_Witness ==
  \E r \in DOMAIN received :
    /\ UnknownCommand(received[r].ev)
    /\ About(acks, received[r].id) # {}
    /\ r < Len(received)

----------------------------------------------------------------------------
(* C7 *)

\* text contains "hello" in any mix of upper and lower case
HasHello(text) ==
  \E k \in 0..(Len(text) - 5) :
    /\ text[k + 1] \in {"h", "H"}
    /\ text[k + 2] \in {"e", "E"}
    /\ text[k + 3] \in {"l", "L"}
    /\ text[k + 4] \in {"l", "L"}
    /\ text[k + 5] \in {"o", "O"}

\* C7: for a mention whose user lookup succeeded exactly one message is
\* posted, to the event's channel; it has pretext "Greetings" and color
\* #4af030 when the text contains "hello" in any case, and pretext "How can I
\* be of service?" and color #3d3d3d otherwise.
C7_MentionReply ==
  \A r \in DOMAIN received :
    LET id == received[r].id
        e == received[r].ev
    IN (IsMention(e) /\ \E l \in About(lookups, id) : lookups[l].ok) =>
         /\ Cardinality(About(posts, id)) = 1
         /\ \A p \in About(posts, id) :
              /\ posts[p].channel = e.channel
              /\ posts[p].attachment.Pretext \in
                   {"Greetings", "How can I be of service?"}
              /\ HasHello(e.text) <=>
                   (posts[p].attachment.Pretext = "Greetings"
                      /\ posts[p].attachment.Color = "#4af030")
              /\ ~HasHello(e.text) <=>
                   (posts[p].attachment.Pretext = "How can I be of service?"
                      /\ posts[p].attachment.Color = "#3d3d3d")

C7_Witness ==
  \E p, q \in DOMAIN posts :
    /\ posts[p].attachment.Pretext = "Greetings"
    /\ \E r \in DOMAIN received :
         /\ received[r].id = posts[p].id
         /\ ~Contains(received[r].ev.text, Keyword)
    /\ posts[q].attachment.Pretext = "How can I be of service?"
    /\ posts[p].channel # posts[q].channel

----------------------------------------------------------------------------
(* C8 *)

IsArticle(e) == IsSlash(e) /\ e.kind = "/was-this-article-useful"

\* the labels of the selectable options of a payload
OptionLabels(pl) ==
  IF pl = NilPayload \/ pl[1].Blocks = << >>
  THEN << >>
  ELSE LET opts == pl[1].Blocks[1].Accessory.Options
       IN [i \in DOMAIN opts |-> opts[i].Text.Text]

\* C8: for /was-this-article-useful no message is posted; the payload the
\* handler returns has exactly the two options "Yes" and "No", and the
\* acknowledgment of that event, sent once the handler has returned, carries
\* that payload.
C8_ArticlePayloadAcked ==
  \A r \in DOMAIN received :
    LET id == received[r].id
        e == received[r].ev
    IN IsArticle(e) =>
         /\ About(posts, id) = {}
         /\ (cur.id = id /\ pc = "ack_slash_command") =>
              OptionLabels(payload) = <<"Yes", "No">>
         /\ \A a \in About(acks, id) :
              OptionLabels(acks[a].payload) = <<"Yes", "No">>
         /\ Completed(id) => Cardinality(About(acks, id)) = 1

C8_Witness ==
  \E r \in DOMAIN received :
    /\ IsArticle(received[r].ev)
    /\ Completed(received[r].id)
    /\ \E a \in About(acks, received[r].id) : Len(acks[a].payload) = 1

----------------------------------------------------------------------------
(* C9 *)

IsHello(e) == IsSlash(e) /\ e.kind = "/hello"

\* C9: for /hello with user name U and text T exactly one message is posted
\* once the handler has run, to the command's channel, with the text
\* "Hello U! You said: T".
C9_HelloReply ==
  \A r \in DOMAIN received :
    LET id == received[r].id
        e == received[r].ev
    IN IsHello(e) =>
         /\ Cardinality(About(posts, id)) = (IF About(calls, id) = {} THEN 0 ELSE 1)
         /\ \A p \in About(posts, id) :
              /\ posts[p].channel = e.channel
              /\ posts[p].attachment.Text =
                   <<"H","e","l","l","o"," ">> \o e.who \o <<"!"," ">>
                     \o <<"Y","o","u"," ","s","a","i","d",":"," ">> \o e.text

C9_Witness ==
  \E r \in DOMAIN received :
    /\ IsHello(received[r].ev)
    /\ received[r].ev.text = << >>
    /\ Cardinality(About(posts, received[r].id)) = 1

----------------------------------------------------------------------------
(* C10 *)

\* C10: no event is acknowledged twice; an Events API event whose cast
\* succeeded is acknowledged before its handler starts, hence also when the
\* handler fails; a slash command or interactive callback is acknowledged
\* only after its handler returned without error, and once the router is
\* through with it; an event that is skipped is never acknowledged.
C10_AckDiscipline ==
  \A r \in DOMAIN received :
    LET id == received[r].id
        e == received[r].ev
    IN /\ Cardinality(About(acks, id)) <= 1
       /\ (e.type = "events_api" /\ e.castOk) =>
            /\ About(calls, id) # {} => About(acks, id) # {}
            /\ (cur.id # id \/ pc \in {"select", "stopped"}) => About(acks, id) # {}
       /\ (IsSlash(e) \/ IsInteractive(e)) =>
            /\ About(acks, id) # {} => HandledOk(id)
            /\ HandlerFailed(id) => About(acks, id) = {}
            /\ Completed(id) => About(acks, id) # {}
       /\ Skipped(e) => About(acks, id) = {}

C10_Witness ==
  \E r, q \in DOMAIN received :
    /\ received[r].ev.type = "events_api"
    /\ HandlerFailed(received[r].id)
    /\ About(acks, received[r].id) # {}
    /\ IsSlash(received[q].ev)
    /\ Completed(received[q].id)
    /\ About(acks, received[q].id) # {}

====
